---- MODULE Spec2Model ----
(***************************************************************************)
(* Service-API-key lifecycle of task-manager-cat: the service_api_keys     *)
(* table (alembic revision 3d76e0c7a711), the admin endpoints              *)
(* POST /admin/service-keys and POST /admin/rotate-key (app/routers/       *)
(* admin.py) and validate_service_key (app/auth.py).                       *)
(*                                                                         *)
(* Every await on the asyncpg connection is one step: get_db hands out a   *)
(* pooled connection without opening a transaction, so each statement      *)
(* commits on its own and requests interleave between statements.          *)
(* Timestamps are whole days.  Strings that the code takes apart           *)
(* (service keys, environments) are sequences of characters.               *)
(***************************************************************************)
EXTENDS Integers, Sequences, FiniteSets, TLC

\* ---------------------------------------------------------------- bounds
MaxTime == 7           \* the clock stops once it has reached day MaxTime
MaxGenerated == 3      \* calls of secrets.token_bytes over a run
HexLen == 1            \* hex digits kept of the 64 of a key's payload
MaxTasks == 2          \* rows ever inserted into the tasks table

\* ------------------------------------------------------ program constants
GracePeriodDays == 7
HTTP_200_OK == 200
HTTP_201_CREATED == 201
HTTP_400_BAD_REQUEST == 400
HTTP_401_UNAUTHORIZED == 401
HTTP_404_NOT_FOUND == 404
HTTP_422_UNPROCESSABLE_ENTITY == 422
HTTP_500_INTERNAL_SERVER_ERROR == 500

\* SQL NULL of the nullable timestamp column expires_at
NULL == -1

\* the connections of the pool that run admin requests at the same time
Clients == {"c1", "c2"}
KeyNames == {"cat-house-prod", "mobile-app-ios"}

prod == <<"p", "r", "o", "d">>
dev == <<"d", "e", "v">>
\* Literal["prod", "dev"] of ServiceKeyCreateRequest.environment
Environments == {prod, dev}

\* settings.admin_api_key and the X-Admin-Key headers a caller may present:
\* the key, the key in another case, and a header with a byte above 0x7F
\* (Starlette decodes header values as latin-1)
admin_api_key == "dev-admin-key"
AdminHeaders == {"dev-admin-key", "DEV-ADMIN-KEY", "dév-admin-key"}

\* ------------------------------------------------------- string helpers
HexDigits == <<"0", "1", "2", "3", "4", "5", "6", "7",
               "8", "9", "a", "b", "c", "d", "e", "f">>

RECURSIVE hex(_, _)
\* bytes.hex(): the last len base-16 digits of n, most significant first
hex(n, len) ==
    IF len = 0 THEN <<>>
    ELSE hex(n \div 16, len - 1) \o <<HexDigits[(n % 16) + 1]>>

RECURSIVE split(_, _)
\* str.split(sep) for a one-character separator: the list of maximal
\* pieces between separators (Python index i is TLA+ index i + 1)
split(s, sep) ==
    IF \A i \in 1..Len(s) : s[i] # sep THEN <<s>>
    ELSE LET i == CHOOSE j \in 1..Len(s) :
                      s[j] = sep /\ \A k \in 1..(j - 1) : s[k] # sep
         IN  <<SubSeq(s, 1, i - 1)>> \o split(SubSeq(s, i + 1, Len(s)), sep)

\* str.startswith
startswith(s, prefix) ==
    Len(s) >= Len(prefix) /\ SubSeq(s, 1, Len(prefix)) = prefix

\* generate_service_key: ValueError for an environment other than prod/dev,
\* else f"sk_{environment}_{hex_string}"; random_bytes is the value drawn
\* from secrets.token_bytes
generate_service_key(environment, random_bytes) ==
    IF environment \notin {prod, dev}
    THEN [raised |-> "ValueError", key |-> <<>>]
    ELSE [raised |-> "",
          key |-> <<"s", "k", "_">> \o environment \o <<"_">>
                      \o hex(random_bytes, HexLen)]

\* every key generate_service_key can return within the bounds, and one
\* well-formed key it never returns (an unknown secret)
AllSecrets ==
    {generate_service_key(e, n).key : e \in Environments, n \in 0..MaxGenerated}

\* ------------------------------------------------------------------ state
VARIABLES
    service_api_keys,  \* the table: its rows in the order of their INSERT,
                       \* which is the order of created_at = NOW()
    now,               \* the clock (NOW() and datetime.now), in days
    entropy,           \* number of values drawn from secrets.token_bytes
    req,               \* per client: the admin request it is running
    resp,              \* how the request that the last step ended, ended
    returned,          \* {<<key_name, secret>>}: secrets sent to callers
    issued,            \* {<<key_name, environment>>}: issue calls answered 201
    rotations,         \* the rotate calls answered 200
    stopped,           \* key_names with a rotate stopped before its INSERT
    tasks,             \* the tasks table: its rows in the order of their
                       \* INSERT, which is the order of created_at = NOW()
    next_task,         \* number of ids drawn from gen_random_uuid()
    cmd,               \* per client: the POST /execute request it is running
    executed           \* the POST /execute request that the last step ended,
                       \* and how it ended

vars == <<service_api_keys, now, entropy, req, resp, returned, issued,
          rotations, stopped, tasks, next_task, cmd, executed>>

\* the history of what callers were sent
history == <<returned, issued, rotations, stopped>>

Rows == {service_api_keys[i] : i \in 1..Len(service_api_keys)}

\* the response models: service_key of ServiceKeyCreateResponse or new_key
\* of ServiceKeyRotateResponse, and old_key_expires_at; empty on an error
NoBody == [key |-> <<>>, old_key_expires_at |-> NULL]

\* a client that runs no request
NoRequest ==
    [op |-> "none", pc |-> "idle", key_name |-> "", environment |-> <<>>,
     after_stop |-> FALSE, old_key |-> <<>>, new_key |-> <<>>,
     expires_at |-> NULL]

\* ------------------------------------------------------------ JSON values
\* a JSON value as Python sees it: its type and its text.  None is Python's
\* None (the value of payload.get for a key the payload does not hold);
\* Absent is a field the request does not carry at all
None == [type |-> "null", value |-> ""]
Absent == [type |-> "absent", value |-> ""]
Str(v) == [type |-> "string", value |-> v]
Num(v) == [type |-> "number", value |-> v]

\* Python's truth value: "if not task_id", "if status_filter"
truthy(j) == j \notin {None, Absent, Str(""), Num("0")}

\* the text of the ids gen_random_uuid() draws, in the order it draws them,
\* and of one more UUID
UuidText ==
    <<"550e8400-e29b-41d4-a716-446655440001",
      "550e8400-e29b-41d4-a716-446655440002",
      "550e8400-e29b-41d4-a716-446655440003",
      "550e8400-e29b-41d4-a716-446655440004">>

\* uuid.UUID(task_id): hex.replace(...) raises AttributeError on a value
\* that is no str, and ValueError on a str that is no UUID
UUID(task_id) ==
    IF task_id.type # "string"
    THEN [raised |-> "AttributeError", id |-> 0]
    ELSE IF \E i \in 1..Len(UuidText) : UuidText[i] = task_id.value
    THEN [raised |-> "",
          id |-> CHOOSE i \in 1..Len(UuidText) : UuidText[i] = task_id.value]
    ELSE [raised |-> "ValueError", id |-> 0]

UserIds == {"user_123", "user_456"}

\* ACTION_HANDLERS' keys
ACTION_HANDLERS ==
    {"create-task", "list-tasks", "get-task", "update-task", "delete-task",
     "get-stats"}

\* the payloads sent: the keys task_id, title and status, None for a key
\* the payload does not hold
Payload(task_id, title, status) ==
    [task_id |-> task_id, title |-> title, status |-> status]

\* the payloads sent with an action: the empty one and those that differ in
\* the keys the action's handler reads
TaskIdPayloads ==
    {Payload(None, None, None),
     Payload(Str("not-a-uuid"), None, None),
     Payload(Num("5"), None, None)}
    \cup {Payload(Str(UuidText[i]), None, None) : i \in 1..(MaxTasks + 1)}

Payloads(action) ==
    CASE action = "create-task" ->
            {Payload(None, None, None),
             Payload(None, Str("Buy cat food"), None),
             Payload(None, Str("Buy cat food"), Str("completed")),
             Payload(None, Str("Buy cat food"), Str("done"))}
      [] action = "list-tasks" ->
            {Payload(None, None, None),
             Payload(None, None, Str("")),
             Payload(None, None, Str("pending")),
             Payload(None, None, Num("5"))}
      [] action \in {"get-task", "delete-task"} -> TaskIdPayloads
      [] action = "update-task" ->
            TaskIdPayloads
            \cup {Payload(Str(UuidText[i]), None, Str("completed")) :
                     i \in {1, MaxTasks + 1}}
            \cup {Payload(Str(UuidText[1]), Str("Buy milk"), None),
                  Payload(Str(UuidText[1]), None, Str("pending"))}
      [] OTHER -> {Payload(None, None, None)}

CommandRequest(action, user_id, payload) ==
    [action |-> action, user_id |-> user_id, payload |-> payload]

\* the bodies that differ in how CommandRequest judges them: action and
\* user_id missing, empty or fine. Every body is a JSON object: a body that
\* is not JSON is refused by the framework before any dependency is resolved
\* and is not modelled.
AuthBodies ==
    {CommandRequest(a, u, Payload(None, None, None)) :
        a \in {Absent, Str(""), Str("get-stats")},
        u \in {Absent, Str(""), Str("user_123")}}

\* the well-formed bodies sent: every registered action and one that is
\* not, for every user, with the action's payloads
Bodies ==
    UNION {{CommandRequest(Str(a), Str(u), p) : u \in UserIds, p \in Payloads(a)} :
              a \in ACTION_HANDLERS \cup {"test-action"}}

\* the X-Service-Key header: none, or a secret
NoHeader == [present |-> FALSE, value |-> <<>>]
Header(x_service_key) == [present |-> TRUE, value |-> x_service_key]

\* a client that runs no POST /execute
NoCommand ==
    [pc |-> "idle", x_service_key |-> NoHeader,
     command |-> CommandRequest(Absent, Absent, Payload(None, None, None)),
     key_name |-> "", steps |-> <<>>, calls |-> <<>>, statements |-> 0,
     total |-> 0,
     status_counts |-> [pending |-> 0, in_progress |-> 0, completed |-> 0]]

\* what a handler did when it was not called
NoOutcome == [raised |-> "none", status_code |-> 0, detail |-> <<>>,
              result |-> None]

\* the last step ended no POST /execute
NoExecuted ==
    [op |-> "none", client |-> "", x_service_key |-> NoHeader,
     command |-> CommandRequest(Absent, Absent, Payload(None, None, None)),
     status_code |-> 0, detail |-> <<>>, body |-> None,
     steps |-> <<>>, calls |-> <<>>, statements |-> 0, outcome |-> NoOutcome]

\* the X-Service-Key headers sent: none, the secret of every row, and a
\* secret that was never generated
ServiceHeaders ==
    {NoHeader, Header(generate_service_key(prod, MaxGenerated).key)}
    \cup {Header(service_api_keys[i].api_key) : i \in 1..Len(service_api_keys)}

\* a step of the key lifecycle: it runs and ends no POST /execute
NoExecute ==
    /\ executed' = NoExecuted
    /\ UNCHANGED <<tasks, next_task, cmd>>

\* the last step ended no request
NoResponse ==
    [op |-> "none", key_name |-> "", after_stop |-> FALSE, status_code |-> 0,
     detail |-> <<>>, body |-> NoBody]

Init ==
    /\ service_api_keys = <<>>
    /\ now = 0
    /\ entropy = 0
    /\ req = [c \in Clients |-> NoRequest]
    /\ resp = NoResponse
    /\ returned = {}
    /\ issued = {}
    /\ rotations = {}
    /\ stopped = {}
    /\ tasks = <<>>
    /\ next_task = 0
    /\ cmd = [c \in Clients |-> NoCommand]
    /\ executed = NoExecuted

\* ------------------------------------------------------------- the table
\* (mutant of InsertRow: the new row is inserted with active = false)
InsertRowInactive(key_name, api_key) ==
    Append(service_api_keys,
           [id |-> Len(service_api_keys) + 1, key_name |-> key_name,
            api_key |-> api_key, active |-> FALSE, expires_at |-> NULL])

\* (mutant of UniqueViolation: the table lacks UniqueConstraint('key_name'))
UniqueViolationApiKeyOnly(key_name, api_key) ==
    \E r \in Rows : r.api_key = api_key

\* UniqueConstraint('key_name') and UniqueConstraint('api_key'): an INSERT
\* of (key_name, api_key) raises UniqueViolationError
UniqueViolation(key_name, api_key) ==
    \E r \in Rows : r.key_name = key_name \/ r.api_key = api_key

\* INSERT INTO service_api_keys (key_name, api_key, active, created_at)
\* VALUES ($1, $2, true, NOW()): id generated, expires_at left NULL; the
\* row is the latest by created_at, so it goes last
InsertRow(key_name, api_key) ==
    Append(service_api_keys,
           [id |-> Len(service_api_keys) + 1, key_name |-> key_name,
            api_key |-> api_key, active |-> TRUE, expires_at |-> NULL])

\* (mutant of SelectByKeyName: the pre-check looks at active rows only)
SelectByKeyNameActive(key_name) ==
    {r \in Rows : r.key_name = key_name /\ r.active}

\* SELECT id FROM service_api_keys WHERE key_name = $1
SelectByKeyName(key_name) == {r \in Rows : r.key_name = key_name}

\* (mutant of SelectActiveLatest: the SELECT lacks AND active = true)
SelectLatest(key_name) ==
    LET match == {r \in Rows : r.key_name = key_name}
    IN  {r \in match : \A q \in match : q.id <= r.id}

\* SELECT api_key FROM service_api_keys WHERE key_name = $1 AND active = true
\* ORDER BY created_at DESC LIMIT 1: the set of the rows returned, empty or
\* the one matching row inserted last
SelectActiveLatest(key_name) ==
    LET match == {r \in Rows : r.key_name = key_name /\ r.active}
    IN  {r \in match : \A q \in match : q.id <= r.id}

\* UPDATE service_api_keys SET expires_at = $1 WHERE api_key = $2
UpdateExpiresAt(expires_at, api_key) ==
    [i \in 1..Len(service_api_keys) |->
        IF service_api_keys[i].api_key = api_key
        THEN [service_api_keys[i] EXCEPT !.expires_at = expires_at]
        ELSE service_api_keys[i]]

\* (mutant of ValidateMatch: expires_at >= NOW() for expires_at > NOW())
ValidateMatchInclusive(x_service_key) ==
    {r \in Rows : /\ r.api_key = x_service_key
                  /\ r.active
                  /\ (r.expires_at = NULL \/ r.expires_at >= now)}

\* the WHERE clause of validate_service_key's SELECT
ValidateMatch(x_service_key) ==
    {r \in Rows : /\ r.api_key = x_service_key
                  /\ r.active
                  /\ (r.expires_at = NULL \/ r.expires_at > now)}

\* (mutant of validate_service_key: the detail tells a key that has a row
\* from a key that has none)
validate_service_key_telling(x_service_key) ==
    LET result == ValidateMatch(x_service_key)
    IN  IF result = {}
        THEN [status_code |-> HTTP_401_UNAUTHORIZED,
              detail |-> IF \E r \in Rows : r.api_key = x_service_key
                         THEN "Expired service key"
                         ELSE "Invalid or expired service key",
              key_name |-> ""]
        ELSE [status_code |-> HTTP_200_OK, detail |-> "",
              key_name |-> (CHOOSE r \in result : TRUE).key_name]

\* validate_service_key: the key_name of the matching row, or
\* HTTPException(401, "Invalid or expired service key")
validate_service_key(x_service_key) ==
    LET result == ValidateMatch(x_service_key)
    IN  IF result = {}
        THEN [status_code |-> HTTP_401_UNAUTHORIZED,
              detail |-> "Invalid or expired service key", key_name |-> ""]
        ELSE [status_code |-> HTTP_200_OK, detail |-> "",
              key_name |-> (CHOOSE r \in result : TRUE).key_name]

\* str.isascii, for the strings that occur as admin keys
isascii(s) == s \in {"dev-admin-key", "DEV-ADMIN-KEY"}

\* secrets.compare_digest(a, b) on two str: TypeError ("comparing strings
\* with non-ASCII characters is not supported") unless both are ASCII
compare_digest(a, b) ==
    IF isascii(a) /\ isascii(b)
    THEN [raised |-> "", equal |-> a = b]
    ELSE [raised |-> "TypeError", equal |-> FALSE]

\* validate_admin_key lets the request through:
\* secrets.compare_digest(x_admin_key, settings.admin_api_key) is true
validate_admin_key(x_admin_key) ==
    compare_digest(x_admin_key, admin_api_key).equal

\* -------------------------------------------------------------- requests
\* the request of client c ends with this response; after_stop tells that
\* it is a rotate that began after a rotate of its key_name had stopped
Respond(c, op, key_name, status_code, detail, body) ==
    /\ req' = [req EXCEPT ![c] = NoRequest]
    /\ resp' = [op |-> op, key_name |-> key_name,
                after_stop |-> IF req[c].pc = "idle"
                               THEN op = "rotate" /\ key_name \in stopped
                               ELSE req[c].after_stop,
                status_code |-> status_code, detail |-> detail, body |-> body]

\* a request to POST /admin/service-keys (op = "issue") or to
\* POST /admin/rotate-key (op = "rotate") whose X-Admin-Key the dependency
\* validate_admin_key does not let through: HTTPException(401) when
\* compare_digest is false, 500 when compare_digest raises (nothing catches
\* its TypeError); the endpoint does not run
InvalidAdminKey(c, op, x_admin_key) ==
    /\ req[c].pc = "idle"
    /\ ~validate_admin_key(x_admin_key)
    /\ IF compare_digest(x_admin_key, admin_api_key).raised # ""
       THEN Respond(c, op, "", HTTP_500_INTERNAL_SERVER_ERROR,
                    <<"Internal Server Error">>, NoBody)
       ELSE Respond(c, op, "", HTTP_401_UNAUTHORIZED, <<"Invalid admin key">>,
                    NoBody)
    /\ UNCHANGED <<service_api_keys, now, entropy, history>>
    /\ NoExecute

\* an exception no handler catches: Starlette answers 500
InternalServerError(c, op, key_name) ==
    Respond(c, op, key_name, HTTP_500_INTERNAL_SERVER_ERROR,
            <<"Internal Server Error">>, NoBody)

\* POST /admin/service-keys, create_service_key up to its INSERT: the
\* dependency validate_admin_key, the pre-check and generate_service_key
IssueCheck(c, x_admin_key, key_name, environment) ==
    /\ req[c].pc = "idle"
    /\ validate_admin_key(x_admin_key)
    /\ LET existing == SelectByKeyName(key_name)
           generated == generate_service_key(environment, entropy)
       IN  IF existing # {}
           THEN /\ Respond(c, "issue", key_name, HTTP_400_BAD_REQUEST,
                           <<"Service key with name '", key_name,
                             "' already exists">>, NoBody)
                /\ UNCHANGED entropy
           ELSE /\ entropy < MaxGenerated
                /\ entropy' = entropy + 1
                /\ IF generated.raised # ""
                   THEN InternalServerError(c, "issue", key_name)
                   ELSE /\ req' = [req EXCEPT ![c] =
                                     [NoRequest EXCEPT !.op = "issue",
                                                       !.pc = "issue_insert",
                                                       !.key_name = key_name,
                                                       !.environment = environment,
                                                       !.new_key = generated.key]]
                        /\ resp' = NoResponse
    /\ UNCHANGED <<service_api_keys, now, history>>
    /\ NoExecute

\* create_service_key's INSERT ... RETURNING and its response
IssueInsert(c) ==
    /\ req[c].pc = "issue_insert"
    /\ IF UniqueViolation(req[c].key_name, req[c].new_key)
       THEN /\ InternalServerError(c, "issue", req[c].key_name)
            /\ UNCHANGED <<service_api_keys, returned, issued>>
       ELSE /\ service_api_keys' = InsertRow(req[c].key_name, req[c].new_key)
            /\ Respond(c, "issue", req[c].key_name, HTTP_201_CREATED, <<>>,
                       [NoBody EXCEPT !.key = req[c].new_key])
            /\ returned' = returned \cup {<<req[c].key_name, req[c].new_key>>}
            /\ issued' = issued \cup {<<req[c].key_name, req[c].environment>>}
    /\ UNCHANGED <<now, entropy, rotations, stopped>>
    /\ NoExecute

\* POST /admin/rotate-key, rotate_service_key up to its UPDATE: the
\* dependency validate_admin_key, the SELECT of the current active key, the
\* environment parsed out of it, the new key and the grace expiry
RotateSelect(c, x_admin_key, key_name) ==
    /\ req[c].pc = "idle"
    /\ validate_admin_key(x_admin_key)
    /\ LET result == SelectActiveLatest(key_name)
           old_key == (CHOOSE r \in result : TRUE).api_key
           parts == split(old_key, "_")
           environment == parts[2]
           generated == generate_service_key(environment, entropy)
       IN  IF result = {}
           THEN /\ Respond(c, "rotate", key_name, HTTP_404_NOT_FOUND,
                           <<"Active service key '", key_name, "' not found">>,
                           NoBody)
                /\ UNCHANGED entropy
           ELSE IF Len(parts) < 2
           THEN /\ InternalServerError(c, "rotate", key_name)
                /\ UNCHANGED entropy
           ELSE /\ entropy < MaxGenerated
                /\ entropy' = entropy + 1
                /\ IF generated.raised # ""
                   THEN InternalServerError(c, "rotate", key_name)
                   ELSE /\ req' = [req EXCEPT ![c] =
                                     [op |-> "rotate", pc |-> "rot_update",
                                      key_name |-> key_name,
                                      environment |-> environment,
                                      after_stop |-> key_name \in stopped,
                                      old_key |-> old_key,
                                      new_key |-> generated.key,
                                      expires_at |-> now + GracePeriodDays]]
                        /\ resp' = NoResponse
    /\ UNCHANGED <<service_api_keys, now, history>>
    /\ NoExecute

\* rotate_service_key's UPDATE of the old key's expires_at
RotateUpdate(c) ==
    /\ req[c].pc = "rot_update"
    /\ service_api_keys' = UpdateExpiresAt(req[c].expires_at, req[c].old_key)
    /\ req' = [req EXCEPT ![c].pc = "rot_insert"]
    /\ resp' = NoResponse
    /\ UNCHANGED <<now, entropy, history>>
    /\ NoExecute

\* rotate_service_key's INSERT of the new key and its response
RotateInsert(c) ==
    /\ req[c].pc = "rot_insert"
    /\ IF UniqueViolation(req[c].key_name, req[c].new_key)
       THEN /\ InternalServerError(c, "rotate", req[c].key_name)
            /\ UNCHANGED <<service_api_keys, returned, rotations>>
       ELSE /\ service_api_keys' = InsertRow(req[c].key_name, req[c].new_key)
            /\ Respond(c, "rotate", req[c].key_name, HTTP_200_OK, <<>>,
                       [key |-> req[c].new_key,
                        old_key_expires_at |-> req[c].expires_at])
            /\ returned' = returned \cup {<<req[c].key_name, req[c].new_key>>}
            /\ rotations' = rotations \cup
                   {[key_name |-> req[c].key_name, old_key |-> req[c].old_key,
                     new_key |-> req[c].new_key, at |-> now]}
    /\ UNCHANGED <<now, entropy, issued, stopped>>
    /\ NoExecute

\* rotate_service_key stops between its UPDATE and its INSERT (the two
\* statements share no transaction): the process dies or the connection
\* drops, and the caller gets no response (status_code 0)
RotateStop(c) ==
    /\ req[c].pc = "rot_insert"
    /\ Respond(c, "rotate", req[c].key_name, 0, <<>>, NoBody)
    /\ stopped' = stopped \cup {req[c].key_name}
    /\ UNCHANGED <<service_api_keys, now, entropy, returned, issued, rotations>>
    /\ NoExecute

\* time passes until the next instant at which the clock is read: the days
\* 0, 1, 7, 8, 14, ... (a multiple of the grace period, or one day later),
\* so that now + 7 days computed at one instant is met exactly and is also
\* seen from one day before
Tick ==
    /\ now < MaxTime
    /\ now' = IF now % GracePeriodDays = 0 THEN now + 1
              ELSE now + (GracePeriodDays - 1)
    /\ resp' = NoResponse
    /\ UNCHANGED <<service_api_keys, entropy, req, history>>
    /\ NoExecute

\* revocation: an operator flips a row's active flag in the database
Revoke(i) ==
    /\ service_api_keys[i].active
    /\ service_api_keys' = [service_api_keys EXCEPT ![i].active = FALSE]
    /\ resp' = NoResponse
    /\ UNCHANGED <<now, entropy, req, history>>
    /\ NoExecute

\* ------------------------------------------------------- the tasks table
TaskIndexes == 1..Len(tasks)

\* the values TaskCreate's and TaskUpdate's status pattern lets through
StatusValues == {"pending", "in_progress", "completed"}

\* TaskResponse.model_validate(dict(row)).model_dump(mode='json'): the row
\* with its id as text (created_at is left out: it is the order of tasks)
TaskResponse(row) ==
    [id |-> UuidText[row.id], user_id |-> row.user_id, title |-> row.title,
     status |-> row.status, completed_at |-> row.completed_at,
     due_date |-> row.due_date]

\* ---------------------------------------------------------- the handlers
\* what a handler call comes to: what it returned or raised, the table it
\* leaves, and the number of statements it ran on the table
Return(result, new_tasks, new_next_task, statements) ==
    [raised |-> "", status_code |-> 0, detail |-> <<>>, result |-> result,
     tasks |-> new_tasks, next_task |-> new_next_task,
     statements |-> statements]

\* raise HTTPException(status_code=..., detail=...)
HTTPException(status_code, detail, statements) ==
    [raised |-> "HTTPException", status_code |-> status_code,
     detail |-> detail, result |-> None,
     tasks |-> tasks, next_task |-> next_task, statements |-> statements]

\* an exception that no except clause of the handler catches; detail is str(e)
Uncaught(exception, message) ==
    [raised |-> exception, status_code |-> 0, detail |-> <<message>>,
     result |-> None,
     tasks |-> tasks, next_task |-> next_task, statements |-> 0]

\* the shared opening of get-task, update-task and delete-task: task_id is
\* taken from the payload, checked for truth and parsed; "" when it is fine
TaskIdError(payload) ==
    LET task_id == payload.task_id
    IN  IF ~truthy(task_id)
        THEN HTTPException(HTTP_400_BAD_REQUEST,
                           <<"Missing required field: task_id">>, 0)
        ELSE IF UUID(task_id).raised \in {"ValueError", "TypeError"}
        THEN HTTPException(HTTP_400_BAD_REQUEST,
                           <<"Invalid UUID format for task_id">>, 0)
        ELSE IF UUID(task_id).raised # ""
        THEN Uncaught(UUID(task_id).raised,
                      "'int' object has no attribute 'replace'")
        ELSE Return(None, tasks, next_task, 0)

\* create_task_handler: TaskCreate(**payload), INSERT ... RETURNING *
create_task_handler(user_id, payload) ==
    LET title_ok == payload.title.type = "string"
        status_ok == \/ payload.status = None
                     \/ /\ payload.status.type = "string"
                        /\ payload.status.value \in StatusValues
        row == [id |-> next_task + 1, user_id |-> user_id,
                title |-> payload.title.value,
                status |-> IF payload.status = None THEN "pending"
                           ELSE payload.status.value,
                completed_at |-> NULL, due_date |-> NULL]
    IN  IF ~(title_ok /\ status_ok)
        THEN HTTPException(HTTP_400_BAD_REQUEST,
                           <<"validation error for TaskCreate">>, 0)
        ELSE Return(TaskResponse(row), Append(tasks, row), next_task + 1, 1)

\* list_tasks_handler: SELECT * FROM tasks WHERE user_id = $1 [AND status =
\* $2] ORDER BY created_at DESC; a status filter that is no str makes
\* asyncpg raise on binding $2, which the handler turns into 500
list_tasks_handler(user_id, payload) ==
    LET status_filter == payload.status
        Selected(row) ==
            /\ row.user_id = user_id
            /\ truthy(status_filter) => row.status = status_filter.value
        rows == SelectSeq(tasks, Selected)
        listed == [i \in 1..Len(rows) |-> TaskResponse(rows[Len(rows) + 1 - i])]
    IN  IF truthy(status_filter) /\ status_filter.type # "string"
        THEN HTTPException(HTTP_500_INTERNAL_SERVER_ERROR,
                           <<"Internal server error">>, 0)
        ELSE Return([tasks |-> listed, count |-> Len(listed)],
                    tasks, next_task, 1)

\* get_task_handler: SELECT * FROM tasks WHERE id = $1
get_task_handler(user_id, payload) ==
    LET task_id_uuid == UUID(payload.task_id).id
        found == {i \in TaskIndexes : tasks[i].id = task_id_uuid}
    IN  IF TaskIdError(payload).raised # ""
        THEN TaskIdError(payload)
        ELSE IF found = {}
        THEN HTTPException(HTTP_404_NOT_FOUND,
                           <<"Task not found: ", UuidText[task_id_uuid]>>, 1)
        ELSE Return(TaskResponse(tasks[CHOOSE i \in found : TRUE]),
                    tasks, next_task, 1)

\* (mutant of set_clauses: every column is assigned, a field the payload
\* lacks getting the column's default)
set_clauses_every_field(row, update_dict) ==
    [row EXCEPT
        !.title = IF update_dict.title = None THEN ""
                  ELSE update_dict.title.value,
        !.status = IF update_dict.status = None THEN "pending"
                   ELSE update_dict.status.value,
        !.completed_at =
            IF update_dict.status = None THEN @
            ELSE IF update_dict.status.value = "completed" THEN now
            ELSE NULL]

\* (mutant of set_clauses: completed_at is set on completion and never
\* cleared)
set_clauses_never_cleared(row, update_dict) ==
    [row EXCEPT
        !.title = IF update_dict.title = None THEN @
                  ELSE update_dict.title.value,
        !.status = IF update_dict.status = None THEN @
                   ELSE update_dict.status.value,
        !.completed_at =
            IF update_dict.status = None THEN @
            ELSE IF update_dict.status.value = "completed" THEN now
            ELSE @]

\* the SET clause update_task_handler builds, applied to the row it finds:
\* "field = $n" for every field of update_dict (the fields of the payload
\* that are not None), then completed_at = NOW() or completed_at = NULL
\* when status is among them
set_clauses(row, update_dict) ==
    [row EXCEPT
        !.title = IF update_dict.title = None THEN @
                  ELSE update_dict.title.value,
        !.status = IF update_dict.status = None THEN @
                   ELSE update_dict.status.value,
        !.completed_at =
            IF update_dict.status = None THEN @
            ELSE IF update_dict.status.value = "completed" THEN now
            ELSE NULL]

\* update_task_handler: TaskUpdate(**fields), the dynamic UPDATE tasks SET
\* ... WHERE id = $1 RETURNING * with completed_at following status
update_task_handler(user_id, payload) ==
    LET task_id_uuid == UUID(payload.task_id).id
        title_ok == payload.title = None \/ payload.title.type = "string"
        status_ok == \/ payload.status = None
                     \/ /\ payload.status.type = "string"
                        /\ payload.status.value \in StatusValues
        found == {i \in TaskIndexes : tasks[i].id = task_id_uuid}
        old == tasks[CHOOSE i \in found : TRUE]
        new == set_clauses(old, payload)
    IN  IF TaskIdError(payload).raised # ""
        THEN TaskIdError(payload)
        ELSE IF ~(title_ok /\ status_ok)
        THEN HTTPException(HTTP_400_BAD_REQUEST,
                           <<"validation error for TaskUpdate">>, 0)
        ELSE IF payload.title = None /\ payload.status = None
        THEN HTTPException(HTTP_400_BAD_REQUEST,
                           <<"No fields provided for update">>, 0)
        ELSE IF found = {}
        THEN HTTPException(HTTP_404_NOT_FOUND,
                           <<"Task not found: ", UuidText[task_id_uuid]>>, 1)
        ELSE Return(TaskResponse(new),
                    [i \in TaskIndexes |-> IF i \in found THEN new
                                           ELSE tasks[i]],
                    next_task, 1)

\* delete_task_handler: DELETE FROM tasks WHERE id = $1 RETURNING id
delete_task_handler(user_id, payload) ==
    LET task_id_uuid == UUID(payload.task_id).id
        found == {i \in TaskIndexes : tasks[i].id = task_id_uuid}
        Kept(row) == row.id # task_id_uuid
    IN  IF TaskIdError(payload).raised # ""
        THEN TaskIdError(payload)
        ELSE IF found = {}
        THEN HTTPException(HTTP_404_NOT_FOUND,
                           <<"Task not found: ", UuidText[task_id_uuid]>>, 1)
        ELSE Return([success |-> TRUE, deleted_id |-> UuidText[task_id_uuid]],
                    SelectSeq(tasks, Kept), next_task, 1)

\* (mutant of calculate_total_tasks: COUNT(*) FROM tasks without the WHERE
\* clause)
calculate_total_tasks_all(user_id) == Len(tasks)

\* the three queries of the statistics service
calculate_total_tasks(user_id) ==
    Cardinality({i \in TaskIndexes : tasks[i].user_id = user_id})

calculate_tasks_by_status(user_id) ==
    [status \in StatusValues |->
        Cardinality({i \in TaskIndexes : /\ tasks[i].user_id = user_id
                                         /\ tasks[i].status = status})]

calculate_overdue_tasks(user_id) ==
    Cardinality({i \in TaskIndexes : /\ tasks[i].user_id = user_id
                                     /\ tasks[i].due_date # NULL
                                     /\ tasks[i].due_date < now
                                     /\ tasks[i].status # "completed"})

\* calculate_completion_rate: round(completed / total * 100, 2), here in
\* hundredths of a percent
calculate_completion_rate(status_counts) ==
    LET total == status_counts["pending"] + status_counts["in_progress"]
                 + status_counts["completed"]
    IN  IF total = 0 THEN 0
        ELSE (2 * 10000 * status_counts["completed"] + total) \div (2 * total)

\* get_task_statistics' result, built from what its three queries found
get_task_statistics(total, status_counts, overdue) ==
    [total_tasks |-> total,
     pending_tasks |-> status_counts["pending"],
     in_progress_tasks |-> status_counts["in_progress"],
     completed_tasks |-> status_counts["completed"],
     completion_rate |-> calculate_completion_rate(status_counts),
     overdue_tasks |-> overdue]

Next ==
    \/ \E c \in Clients, op \in {"issue", "rotate"}, h \in AdminHeaders :
          InvalidAdminKey(c, op, h)
    \/ \E c \in Clients, h \in AdminHeaders, k \in KeyNames, e \in Environments :
          IssueCheck(c, h, k, e)
    \/ \E c \in Clients : IssueInsert(c)
    \/ \E c \in Clients, h \in AdminHeaders, k \in KeyNames :
          RotateSelect(c, h, k)
    \/ \E c \in Clients : RotateUpdate(c)
    \/ \E c \in Clients : RotateInsert(c)
    \/ \E c \in Clients : RotateStop(c)
    \/ Tick

\* issue and rotate requests (authorised or not, a rotate possibly
\* stopping half way) and the clock
Spec == Init /\ [][Next]_vars

NextRevoke ==
    \/ \E c \in Clients, h \in AdminHeaders, k \in KeyNames, e \in Environments :
          IssueCheck(c, h, k, e)
    \/ \E c \in Clients : IssueInsert(c)
    \/ \E c \in Clients, h \in AdminHeaders, k \in KeyNames :
          RotateSelect(c, h, k)
    \/ \E c \in Clients : RotateUpdate(c)
    \/ \E c \in Clients : RotateInsert(c)
    \/ Tick
    \/ \E i \in 1..Len(service_api_keys) : Revoke(i)

\* revocation added: authorised issue and rotate requests that run to their
\* end, the clock, and rows whose active flag is switched off
SpecRevoke == Init /\ [][NextRevoke]_vars

\* ------------------------------------------------------ POST /execute
\* CommandRequest's validation of one field declared str, min_length=1
FieldErrors(name, value) ==
    IF value = Absent
    THEN <<[loc |-> <<"body", name>>, type |-> "missing"]>>
    ELSE IF value.type # "string"
    THEN <<[loc |-> <<"body", name>>, type |-> "string_type"]>>
    ELSE IF value.value = ""
    THEN <<[loc |-> <<"body", name>>, type |-> "string_too_short"]>>
    ELSE <<>>

\* the errors of the body against CommandRequest
request_body_to_args(body) ==
    FieldErrors("action", body.action) \o FieldErrors("user_id", body.user_id)

\* (mutant of solve_dependencies: the body is validated before the
\* dependency validate_service_key is called)
solve_dependencies_body_first(x_service_key, body) ==
    LET header_errors ==
            IF x_service_key.present THEN <<>>
            ELSE <<[loc |-> <<"header", "X-Service-Key">>, type |-> "missing"]>>
        auth == validate_service_key(x_service_key.value)
        errors == header_errors \o request_body_to_args(body)
    IN  IF Len(errors) > 0
        THEN [status_code |-> HTTP_422_UNPROCESSABLE_ENTITY, detail |-> errors,
              key_name |-> "", steps |-> <<"Parse">>]
        ELSE IF auth.status_code # HTTP_200_OK
        THEN [status_code |-> auth.status_code, detail |-> <<auth.detail>>,
              key_name |-> "", steps |-> <<"Parse", "Auth">>]
        ELSE [status_code |-> 0, detail |-> <<>>, key_name |-> auth.key_name,
              steps |-> <<"Parse", "Auth">>]

\* (mutant of solve_dependencies: a request without the header is let
\* through when its body is well formed)
solve_dependencies_header_optional(x_service_key, body) ==
    LET auth == validate_service_key(x_service_key.value)
        errors == request_body_to_args(body)
    IN  IF x_service_key.present /\ auth.status_code # HTTP_200_OK
        THEN [status_code |-> auth.status_code, detail |-> <<auth.detail>>,
              key_name |-> "", steps |-> <<"Auth">>]
        ELSE IF Len(errors) > 0
        THEN [status_code |-> HTTP_422_UNPROCESSABLE_ENTITY, detail |-> errors,
              key_name |-> "", steps |-> <<"Auth", "Parse">>]
        ELSE [status_code |-> 0, detail |-> <<>>, key_name |-> auth.key_name,
              steps |-> <<"Auth", "Parse">>]

\* what FastAPI does with execute_command's parameters before it calls the
\* endpoint.  The dependency validate_service_key comes first: without its
\* required header X-Service-Key it is not called and the missing header is
\* an error of the request; with the header it is called, and its
\* HTTPException(401) ends the request at once.  Then the body is validated
\* against CommandRequest, and all the errors found make one 422 response.
\* status_code 0: the endpoint is called
solve_dependencies(x_service_key, body) ==
    LET header_errors ==
            IF x_service_key.present THEN <<>>
            ELSE <<[loc |-> <<"header", "X-Service-Key">>, type |-> "missing"]>>
        auth == validate_service_key(x_service_key.value)
        errors == header_errors \o request_body_to_args(body)
    IN  IF x_service_key.present /\ auth.status_code # HTTP_200_OK
        THEN [status_code |-> auth.status_code, detail |-> <<auth.detail>>,
              key_name |-> "", steps |-> <<"Auth">>]
        ELSE IF Len(errors) > 0
        THEN [status_code |-> HTTP_422_UNPROCESSABLE_ENTITY, detail |-> errors,
              key_name |-> "", steps |-> <<"Auth", "Parse">>]
        ELSE [status_code |-> 0, detail |-> <<>>, key_name |-> auth.key_name,
              steps |-> <<"Auth", "Parse">>]

\* CommandResponse(success=..., data=..., error=...); the timestamp is left out
CommandResponse(success, data, error) ==
    [success |-> success, data |-> data, error |-> error]

\* (mutant of HandlerReturned: the envelope is built without the mapping)
HandlerReturnedNoData(result) ==
    [status_code |-> HTTP_200_OK, detail |-> <<>>,
     body |-> CommandResponse(TRUE, None, None)]

\* (mutant of HandlerReturned: the envelope of a success carries an error)
HandlerReturnedWithError(result) ==
    [status_code |-> HTTP_200_OK, detail |-> <<>>,
     body |-> CommandResponse(TRUE, result, Str("ok"))]

\* execute_command, the handler returned: return CommandResponse(success=
\* True, data=result, error=None), which FastAPI sends with status 200
HandlerReturned(result) ==
    [status_code |-> HTTP_200_OK, detail |-> <<>>,
     body |-> CommandResponse(TRUE, result, None)]

\* (mutant of HandlerRaisedHTTPException: the exception is wrapped in an
\* envelope like any other)
HandlerRaisedHTTPExceptionWrapped(e) ==
    [status_code |-> HTTP_200_OK, detail |-> <<>>,
     body |-> CommandResponse(FALSE, None, Str(e.detail[1]))]

\* execute_command, except HTTPException: raise
HandlerRaisedHTTPException(e) ==
    [status_code |-> e.status_code, detail |-> e.detail, body |-> None]

\* (mutant of HandlerRaisedException: the exception leaves the endpoint and
\* Starlette answers 500)
HandlerRaisedExceptionUncaught(e) ==
    [status_code |-> HTTP_500_INTERNAL_SERVER_ERROR,
     detail |-> <<"Internal Server Error">>, body |-> None]

\* execute_command, except Exception as e: return CommandResponse(success=
\* False, data=None, error=str(e))
HandlerRaisedException(e) ==
    [status_code |-> HTTP_200_OK, detail |-> <<>>,
     body |-> CommandResponse(FALSE, None, Str(e.detail[1]))]

\* (mutant of UnknownAction: the status the route's documentation gives)
UnknownActionBadRequest(action) ==
    [status_code |-> HTTP_400_BAD_REQUEST,
     detail |-> <<"Unknown action: ", action>>, body |-> None]

\* execute_command, command.action not in ACTION_HANDLERS
UnknownAction(action) ==
    [status_code |-> HTTP_404_NOT_FOUND,
     detail |-> <<"Unknown action: ", action>>, body |-> None]

\* execute_command's try statement around the handler call
execute_command(called) ==
    IF called.raised = "" THEN HandlerReturned(called.result)
    ELSE IF called.raised = "HTTPException"
    THEN HandlerRaisedHTTPException(called)
    ELSE HandlerRaisedException(called)

\* handler = ACTION_HANDLERS[command.action]; handler(user_id, payload, db)
\* for the handlers that run one statement
CallHandler(action, user_id, payload) ==
    CASE action = "create-task" -> create_task_handler(user_id, payload)
      [] action = "list-tasks" -> list_tasks_handler(user_id, payload)
      [] action = "get-task" -> get_task_handler(user_id, payload)
      [] action = "update-task" -> update_task_handler(user_id, payload)
      [] action = "delete-task" -> delete_task_handler(user_id, payload)

\* what the caller of a handler sees of the call
Outcome(called) ==
    [raised |-> called.raised, status_code |-> called.status_code,
     detail |-> called.detail, result |-> called.result]

\* the POST /execute of client c ends with this response
Answer(c, x_service_key, command, response, steps, calls, statements, outcome) ==
    /\ cmd' = [cmd EXCEPT ![c] = NoCommand]
    /\ executed' =
          [op |-> "execute", client |-> c, x_service_key |-> x_service_key,
           command |-> command, status_code |-> response.status_code,
           detail |-> response.detail, body |-> response.body,
           steps |-> steps \o <<"Respond">>, calls |-> calls,
           statements |-> statements, outcome |-> outcome]

\* POST /execute up to the call of the endpoint: the request arrives and
\* FastAPI resolves execute_command's parameters
ExecuteAuth(c, x_service_key, body) ==
    /\ cmd[c].pc = "idle"
    /\ LET solved == solve_dependencies(x_service_key, body)
       IN  IF solved.status_code # 0
           THEN Answer(c, x_service_key, body,
                       [status_code |-> solved.status_code,
                        detail |-> solved.detail, body |-> None],
                       solved.steps, <<>>, 0, NoOutcome)
           ELSE /\ cmd' = [cmd EXCEPT ![c] =
                             [NoCommand EXCEPT !.pc = "route",
                                               !.x_service_key = x_service_key,
                                               !.command = body,
                                               !.key_name = solved.key_name,
                                               !.steps = solved.steps]]
                /\ executed' = NoExecuted
    /\ resp' = NoResponse
    /\ UNCHANGED <<service_api_keys, now, entropy, req, history, tasks,
                   next_task>>

\* execute_command: the look-up of the action and the call of its handler;
\* get_stats_handler gets as far as the first query of get_task_statistics
ExecuteCommand(c) ==
    /\ cmd[c].pc = "route"
    /\ LET action == cmd[c].command.action.value
           user_id == cmd[c].command.user_id.value
           payload == cmd[c].command.payload
           call == [action |-> action, user_id |-> user_id,
                    payload |-> payload]
           called == CallHandler(action, user_id, payload)
       IN  IF action \notin ACTION_HANDLERS
           THEN /\ Answer(c, cmd[c].x_service_key, cmd[c].command,
                          UnknownAction(action), cmd[c].steps \o <<"Route">>,
                          <<>>, 0, NoOutcome)
                /\ UNCHANGED <<tasks, next_task>>
           ELSE IF action = "get-stats"
           THEN /\ cmd' = [cmd EXCEPT
                             ![c].pc = "stats_by_status",
                             ![c].steps = @ \o <<"Route", "Execute">>,
                             ![c].calls = Append(@, call),
                             ![c].statements = @ + 1,
                             ![c].total = calculate_total_tasks(user_id)]
                /\ executed' = NoExecuted
                /\ UNCHANGED <<tasks, next_task>>
           ELSE /\ called.next_task <= MaxTasks
                /\ tasks' = called.tasks
                /\ next_task' = called.next_task
                /\ Answer(c, cmd[c].x_service_key, cmd[c].command,
                          execute_command(called),
                          cmd[c].steps \o <<"Route", "Execute">>,
                          Append(cmd[c].calls, call),
                          cmd[c].statements + called.statements,
                          Outcome(called))
    /\ resp' = NoResponse
    /\ UNCHANGED <<service_api_keys, now, entropy, req, history>>

\* get_task_statistics' second query, calculate_tasks_by_status
StatsByStatus(c) ==
    /\ cmd[c].pc = "stats_by_status"
    /\ cmd' = [cmd EXCEPT
                 ![c].pc = "stats_overdue",
                 ![c].statements = @ + 1,
                 ![c].status_counts =
                     calculate_tasks_by_status(cmd[c].command.user_id.value)]
    /\ executed' = NoExecuted
    /\ resp' = NoResponse
    /\ UNCHANGED <<service_api_keys, now, entropy, req, history, tasks,
                   next_task>>

\* get_task_statistics' third query, calculate_overdue_tasks, the return of
\* get_stats_handler and execute_command's response
StatsOverdue(c) ==
    /\ cmd[c].pc = "stats_overdue"
    /\ LET user_id == cmd[c].command.user_id.value
           called == Return(get_task_statistics(cmd[c].total,
                                cmd[c].status_counts,
                                calculate_overdue_tasks(user_id)),
                            tasks, next_task, 1)
       IN  Answer(c, cmd[c].x_service_key, cmd[c].command,
                  execute_command(called), cmd[c].steps, cmd[c].calls,
                  cmd[c].statements + called.statements, Outcome(called))
    /\ resp' = NoResponse
    /\ UNCHANGED <<service_api_keys, now, entropy, req, history, tasks,
                   next_task>>

NextAuth ==
    \/ IssueCheck("c2", admin_api_key, "cat-house-prod", prod)
    \/ IssueInsert("c2")
    \/ RotateSelect("c2", admin_api_key, "cat-house-prod")
    \/ RotateUpdate("c2")
    \/ Tick
    \/ \E i \in 1..Len(service_api_keys) : Revoke(i)
    \/ \E c \in Clients, h \in ServiceHeaders, b \in AuthBodies :
          ExecuteAuth(c, h, b)
    \/ \E c \in Clients : ExecuteCommand(c)
    \/ \E c \in Clients : StatsByStatus(c)
    \/ \E c \in Clients : StatsOverdue(c)

\* POST /execute with every kind of X-Service-Key header and of body, from
\* two clients, while an administrator issues a key and the key gets an
\* expiry, expires or is revoked
SpecAuth == Init /\ [][NextAuth]_vars

NextExecute ==
    \/ IssueCheck("c2", admin_api_key, "cat-house-prod", prod)
    \/ IssueInsert("c2")
    \/ \E i \in 1..Len(service_api_keys) : Revoke(i)
    \/ \E r \in Rows, b \in Bodies : ExecuteAuth("c1", Header(r.api_key), b)
    \/ ExecuteCommand("c1")
    \/ StatsByStatus("c1")
    \/ StatsOverdue("c1")

\* POST /execute with every action and payload, under the key an
\* administrator issues and may revoke
SpecExecute == Init /\ [][NextExecute]_vars

\* the commands that change the tasks of one user
WriteBodies ==
    UNION {{CommandRequest(Str(a), Str("user_123"), p) : p \in Payloads(a)} :
              a \in {"create-task", "update-task", "delete-task"}}

NextStats ==
    \/ IssueCheck("c2", admin_api_key, "cat-house-prod", prod)
    \/ IssueInsert("c2")
    \/ \E r \in Rows :
          ExecuteAuth("c1", Header(r.api_key),
                      CommandRequest(Str("get-stats"), Str("user_123"),
                                     Payload(None, None, None)))
    \/ \E r \in Rows, b \in WriteBodies : ExecuteAuth("c2", Header(r.api_key), b)
    \/ \E c \in Clients : ExecuteCommand(c)
    \/ StatsByStatus("c1")
    \/ StatsOverdue("c1")

\* one client's get-stats, whose three queries are three steps, while
\* another client creates, updates and deletes tasks of the same user
SpecStats == Init /\ [][NextStats]_vars

\* ----------------------------------------------------------------- claims
\* the message holds the key_name
Contains(detail, key_name) == \E i \in 1..Len(detail) : detail[i] = key_name

\* the secret passes validate
Passes(secret) == validate_service_key(secret).status_code = HTTP_200_OK

\* C1: in every reachable state and for every presented secret s, validate(s)
\* succeeds with the row's key_name if and only if some row has secret = s,
\* active = true and expires_at null or strictly later than now; in every
\* other case it fails with 401.
C1_ValidateIffUsable ==
    \A s \in AllSecrets :
        LET usable == {r \in Rows : /\ r.api_key = s
                                    /\ r.active = TRUE
                                    /\ (r.expires_at # NULL => now < r.expires_at)}
            answer == validate_service_key(s)
        IN  IF usable # {}
            THEN /\ answer.status_code = HTTP_200_OK
                 /\ \A r \in usable : answer.key_name = r.key_name
            ELSE answer.status_code = HTTP_401_UNAUTHORIZED

\* C1's cases together: a row whose expires_at is exactly now and a revoked
\* row, whose secrets both fail
C1_Witness ==
    \E r1, r2 \in Rows :
        /\ r1.active /\ r1.expires_at = now /\ ~Passes(r1.api_key)
        /\ ~r2.active /\ r2.expires_at = NULL /\ ~Passes(r2.api_key)

C6_IssueDuplicateKeyName ==
    [][\A c \in Clients, k \in KeyNames, e \in Environments :
          ((\E r \in Rows : r.key_name = k) /\ IssueCheck(c, admin_api_key, k, e))
              => /\ resp'.op = "issue"
                 /\ resp'.status_code = HTTP_400_BAD_REQUEST
                 /\ Contains(resp'.detail, k)
                 /\ req'[c] = NoRequest
                 /\ service_api_keys' = service_api_keys]_vars

\* an issue was answered 400 for a key_name whose only row is revoked
C6_Witness ==
    /\ resp.op = "issue"
    /\ resp.status_code = HTTP_400_BAD_REQUEST
    /\ \E r \in Rows : r.key_name = resp.key_name /\ ~r.active

\* C9: rotate(key_name) fails with NotFound (404, the message holding
\* key_name) whenever no row with that key_name has active = true, and then
\* no row is updated or inserted.
C9_RotateNotFound ==
    [][\A c \in Clients, k \in KeyNames :
          ((~\E r \in Rows : r.key_name = k /\ r.active)
           /\ RotateSelect(c, admin_api_key, k))
              => /\ resp'.op = "rotate"
                 /\ resp'.status_code = HTTP_404_NOT_FOUND
                 /\ Contains(resp'.detail, k)
                 /\ req'[c] = NoRequest
                 /\ service_api_keys' = service_api_keys]_vars

\* a rotate was answered 404 for a key_name that has a row, a revoked one
C9_Witness ==
    /\ resp.op = "rotate"
    /\ resp.status_code = HTTP_404_NOT_FOUND
    /\ \E r \in Rows : r.key_name = resp.key_name /\ ~r.active

\* the latest row with this key_name and active = true, as the table stands
LatestActive(key_name) ==
    CHOOSE r \in Rows :
        /\ r.key_name = key_name /\ r.active
        /\ \A q \in Rows : (q.key_name = key_name /\ q.active) => q.id <= r.id

\* a rotate request came to an end of its own: it was authorised, found an
\* active key and did not stop half way
RotateRanToEnd ==
    /\ resp.op = "rotate"
    /\ resp.key_name \in KeyNames
    /\ resp.status_code \notin {0, HTTP_401_UNAUTHORIZED, HTTP_404_NOT_FOUND}

\* C2: from the moment issue(key_name) succeeds, in every reachable state
\* (between rotate's UPDATE and INSERT, after a rotate that stopped between
\* them, after any number of rotations and any passage of time) at least one
\* secret that was returned to the caller for that key_name passes validate.
C2_SomeReturnedSecretPasses ==
    \A k \in KeyNames :
        (\E p \in returned : p[1] = k)
            => \E p \in returned : p[1] = k /\ Passes(p[2])

\* C3: after rotate(key_name) completes at time t, the pre-rotation secret
\* and the newly returned secret both pass validate at every time before
\* t + 7 days; from t + 7 days on the pre-rotation secret fails and the new
\* one still passes.
C3_BothPassThenOnlyNew ==
    /\ RotateRanToEnd =>
          /\ resp.status_code = HTTP_200_OK
          /\ \E r \in rotations :
                r.key_name = resp.key_name /\ r.new_key = resp.body.key /\ r.at = now
    /\ \A r \in rotations :
          IF now < r.at + GracePeriodDays
          THEN Passes(r.old_key) /\ Passes(r.new_key)
          ELSE ~Passes(r.old_key) /\ Passes(r.new_key)

\* C4: a successful rotate(key_name) changes the store in exactly two ways:
\* the most recently created active row with that key_name gets
\* expires_at = now + 7 days with active left true, and one new row is
\* inserted with the same key_name, a fresh secret, active = true and
\* expires_at = null; every other row is unchanged and no row is deleted.
C4_RotateChangesTwoRows ==
    [][\A c \in Clients :
          /\ RotateUpdate(c) =>
                service_api_keys' =
                    [i \in 1..Len(service_api_keys) |->
                        IF i = LatestActive(req[c].key_name).id
                        THEN [service_api_keys[i] EXCEPT
                                 !.expires_at = req[c].expires_at]
                        ELSE service_api_keys[i]]
          /\ RotateInsert(c) =>
                /\ resp'.status_code = HTTP_200_OK
                /\ \A r \in Rows : r.api_key # req[c].new_key
                /\ service_api_keys' =
                       Append(service_api_keys,
                              [id |-> Len(service_api_keys) + 1,
                               key_name |-> req[c].key_name,
                               api_key |-> req[c].new_key,
                               active |-> TRUE, expires_at |-> NULL])]_vars

\* C7: when two issue calls for the same key_name interleave so that both
\* pre-checks find no row, exactly one of them inserts a row and the other is
\* reported as DuplicateKeyName (400), not as an infrastructure failure.
C7_RaceLoserGetsDuplicateKeyName ==
    [][\A c \in Clients :
          IssueInsert(c) =>
              IF \E r \in Rows : r.key_name = req[c].key_name
              THEN /\ resp'.status_code = HTTP_400_BAD_REQUEST
                   /\ Contains(resp'.detail, req[c].key_name)
                   /\ service_api_keys' = service_api_keys
              ELSE /\ resp'.status_code = HTTP_201_CREATED
                   /\ Len(service_api_keys') = Len(service_api_keys) + 1]_vars

\* C8: if a rotate(key_name) stops after its UPDATE and before its INSERT, a
\* later re-invocation of rotate(key_name) succeeds and leaves a new row with
\* that key_name, active = true and expires_at = null whose secret passes
\* validate.
C8_RotateAfterStopSucceeds ==
    (resp.op = "rotate" /\ resp.after_stop /\ resp.status_code # 0)
        => /\ resp.status_code = HTTP_200_OK
           /\ \E r \in Rows : /\ r.key_name = resp.key_name
                              /\ r.api_key = resp.body.key
                              /\ r.active /\ r.expires_at = NULL
                              /\ Passes(r.api_key)

\* C10: rotation preserves the environment: for a key issued by
\* issue(key_name, e), after any number of rotations, the secret returned by
\* rotate starts with sk_e_ (the environment parsed from the old secret
\* equals e).
C10_RotatePreservesEnvironment ==
    /\ \A c \in Clients, p \in issued :
          (req[c].op = "rotate" /\ req[c].key_name = p[1])
              => req[c].environment = p[2]
    /\ RotateRanToEnd =>
          /\ resp.status_code = HTTP_200_OK
          /\ \A p \in issued :
                p[1] = resp.key_name
                    => startswith(resp.body.key,
                                  <<"s", "k", "_">> \o p[2] \o <<"_">>)

\* C11: a successful issue(key_name, environment) adds exactly one row with
\* that key_name, the returned secret, active = true and expires_at = null,
\* leaves every existing row unchanged, and the returned secret passes
\* validate immediately afterwards.
C11_IssueAddsOneUsableRow ==
    [][\A c \in Clients :
          (IssueInsert(c) /\ resp'.status_code = HTTP_201_CREATED)
              => /\ service_api_keys' =
                        Append(service_api_keys,
                               [id |-> Len(service_api_keys) + 1,
                                key_name |-> req[c].key_name,
                                api_key |-> resp'.body.key,
                                active |-> TRUE, expires_at |-> NULL])
                 /\ resp'.key_name = req[c].key_name
                 /\ Passes(resp.body.key)']_vars

\* an issue was answered 201 while the table held another row, a revoked one
C11_Witness ==
    /\ resp.op = "issue"
    /\ resp.status_code = HTTP_201_CREATED
    /\ Passes(resp.body.key)
    /\ \E r \in Rows : r.key_name # resp.key_name /\ ~r.active

\* C12: validate fails identically (same status 401, same detail) for a
\* secret that matches no row, a secret on a row with active = false and a
\* secret on a row whose expires_at is in the past: the three cases give
\* indistinguishable responses.
C12_ValidateFailsUniformly ==
    \A s \in AllSecrets :
        LET answer == validate_service_key(s)
        IN  answer.status_code # HTTP_200_OK
                => answer = [status_code |-> HTTP_401_UNAUTHORIZED,
                             detail |-> "Invalid or expired service key",
                             key_name |-> ""]

\* the three cases at once: a secret without a row, a secret on a revoked
\* row and a secret on a row whose expires_at has been reached, all failing
C12_Witness ==
    \E s \in AllSecrets, r1, r2 \in Rows :
        /\ \A r \in Rows : r.api_key # s
        /\ ~r1.active /\ r1.expires_at = NULL
        /\ r2.active /\ r2.expires_at # NULL /\ r2.expires_at <= now
        /\ ~Passes(s) /\ ~Passes(r1.api_key) /\ ~Passes(r2.api_key)

\* the body fails CommandRequest's validation
Malformed(command) == Len(request_body_to_args(command)) > 0

\* the steps of a POST /execute, in their order
RouterSteps == <<"Auth", "Parse", "Route", "Execute">>

C15_MissingHeaderIs401 ==
    (executed.op = "execute" /\ ~executed.x_service_key.present)
        => executed.status_code = HTTP_401_UNAUTHORIZED

C17_EnvelopeDataXorError ==
    (executed.op = "execute" /\ executed.body # None)
        => IF executed.body.success
           THEN executed.body.data # None /\ executed.body.error = None
           ELSE executed.body.data = None /\ executed.body.error # None

\* an envelope with success = false was returned
C17_Witness ==
    /\ executed.op = "execute"
    /\ executed.body # None
    /\ ~executed.body.success
    /\ executed.body.error.type = "string"

\* C18: when a handler signals a categorized failure (HTTPException with
\* status 400, 404 or 500) the router lets it through unchanged: the
\* response has the handler's status code and detail, and no envelope.
C18_HTTPExceptionPassesThrough ==
    (/\ executed.op = "execute"
     /\ executed.outcome.raised = "HTTPException"
     /\ executed.outcome.status_code \in
            {HTTP_400_BAD_REQUEST, HTTP_404_NOT_FOUND,
             HTTP_500_INTERNAL_SERVER_ERROR})
        => /\ executed.status_code = executed.outcome.status_code
           /\ executed.detail = executed.outcome.detail
           /\ executed.body = None

\* list-tasks raised HTTPException(500) and the response is a 500
C18_Witness ==
    /\ executed.op = "execute"
    /\ executed.outcome.raised = "HTTPException"
    /\ executed.outcome.status_code = HTTP_500_INTERNAL_SERVER_ERROR
    /\ executed.status_code = HTTP_500_INTERNAL_SERVER_ERROR

C20_HandlerCalledOnceAndWrapped ==
    (/\ executed.op = "execute"
     /\ executed.status_code \notin
            {HTTP_401_UNAUTHORIZED, HTTP_422_UNPROCESSABLE_ENTITY}
     /\ executed.command.action.value \in ACTION_HANDLERS)
        => /\ executed.calls =
                  <<[action |-> executed.command.action.value,
                     user_id |-> executed.command.user_id.value,
                     payload |-> executed.command.payload]>>
           /\ executed.outcome.raised = ""
                  => /\ executed.status_code = HTTP_200_OK
                     /\ executed.body =
                            [success |-> TRUE, data |-> executed.outcome.result,
                             error |-> None]

\* update-task returned the task it completed, and the envelope carries it
C20_Witness ==
    /\ executed.op = "execute"
    /\ executed.command.action = Str("update-task")
    /\ executed.outcome.raised = ""
    /\ executed.body # None
    /\ executed.body.data.status = "completed"

\* C21: neither admin operation (issue, rotate) reads or writes the
\* Credential Store unless the presented admin header equals the configured
\* admin key exactly (case-sensitively); a mismatching header yields HTTP 401
\* "Invalid admin key" and leaves the store unchanged.
C21_AdminKeyGate ==
    [][\A c \in Clients, op \in {"issue", "rotate"}, h \in AdminHeaders :
          /\ (h # admin_api_key /\ InvalidAdminKey(c, op, h))
                => /\ resp'.status_code = HTTP_401_UNAUTHORIZED
                   /\ resp'.detail = <<"Invalid admin key">>
                   /\ service_api_keys' = service_api_keys
          /\ \A k \in KeyNames, e \in Environments :
                (h # admin_api_key)
                    => ~IssueCheck(c, h, k, e) /\ ~RotateSelect(c, h, k)]_vars

\* the request that ExecuteCommand(c) runs is an update-task, and the
\* handler returns the updated task
UpdateSucceeds(c) ==
    /\ ExecuteCommand(c)
    /\ cmd[c].command.action = Str("update-task")
    /\ executed'.status_code = HTTP_200_OK
    /\ executed'.body.success

\* the index in tasks of the row whose id is the payload's task_id
Target(payload) ==
    CHOOSE i \in 1..Len(tasks) : Str(UuidText[tasks[i].id]) = payload.task_id

\* C22: a successful update-task changes, besides the derived completed_at,
\* only the fields title, description, status, priority, due_date that are
\* explicitly present in the payload; every field absent from the payload
\* keeps its stored value, and no other task row is changed.
C22_UpdateChangesOnlyGivenFields ==
    [][\A c \in Clients :
          LET payload == cmd[c].command.payload
              t == Target(payload)
          IN  UpdateSucceeds(c)
                  => /\ Len(tasks') = Len(tasks)
                     /\ \A i \in 1..Len(tasks) : i # t => tasks'[i] = tasks[i]
                     /\ tasks'[t].id = tasks[t].id
                     /\ tasks'[t].user_id = tasks[t].user_id
                     /\ tasks'[t].due_date = tasks[t].due_date
                     /\ payload.title = None => tasks'[t].title = tasks[t].title
                     /\ payload.status = None
                            => tasks'[t].status = tasks[t].status]_vars

\* an update-task with status alone has changed the status of one of two
\* rows and left its title
C22_Witness ==
    /\ executed.op = "execute"
    /\ executed.command.action = Str("update-task")
    /\ executed.command.payload.title = None
    /\ executed.command.payload.status = Str("pending")
    /\ executed.body # None
    /\ executed.body.success
    /\ executed.body.data.title = "Buy cat food"
    /\ Len(tasks) = 2

\* C23: for update-task on an existing task: a payload with status =
\* completed leaves completed_at non-null; a payload with status = pending or
\* in_progress leaves completed_at null; a payload without status leaves
\* completed_at equal to its value before the update.
C23_CompletedAtFollowsStatus ==
    [][\A c \in Clients :
          LET payload == cmd[c].command.payload
              t == Target(payload)
          IN  UpdateSucceeds(c)
                  => /\ payload.status = Str("completed")
                            => tasks'[t].completed_at # NULL
                     /\ payload.status \in {Str("pending"), Str("in_progress")}
                            => tasks'[t].completed_at = NULL
                     /\ payload.status = None
                            => tasks'[t].completed_at = tasks[t].completed_at]_vars

\* an update-task with title alone has left the completed_at of a completed
\* task
C23_Witness ==
    /\ executed.op = "execute"
    /\ executed.command.action = Str("update-task")
    /\ executed.command.payload.status = None
    /\ executed.body # None
    /\ executed.body.success
    /\ executed.body.data.title = "Buy milk"
    /\ executed.body.data.status = "completed"
    /\ executed.body.data.completed_at # NULL

\* C24: data isolation holds for all commands: for every action executed
\* with user_id u, the response contains only tasks whose stored user_id is
\* u, so a request made with user_id u never returns a task owned by a
\* different user.
C24_DataIsolation ==
    (executed.op = "execute" /\ executed.body # None /\ executed.body.success)
        => LET u == executed.command.user_id.value
               action == executed.command.action.value
               data == executed.body.data
           IN  /\ action \in {"create-task", "get-task", "update-task"}
                      => data.user_id = u
               /\ action = "list-tasks"
                      => \A i \in 1..Len(data.tasks) : data.tasks[i].user_id = u

\* the status filter list_tasks_handler applies: a status that is null or
\* the empty string is no filter
HasStatusFilter(payload) == payload.status \notin {None, Str("")}

\* the stored tasks of user u
TasksOf(u) == {i \in 1..Len(tasks) : tasks[i].user_id = u}

InvalidTaskId(payload) ==
    ~\E i \in 1..Len(UuidText) : payload.task_id = Str(UuidText[i])

\* C26: for get-task, update-task and delete-task, every payload whose
\* task_id is missing, empty, or any JSON value that is not a valid UUID
\* string (including non-string values such as a number or a list) is
\* rejected with HTTP 400 before storage is touched; it never reaches storage
\* and never produces a 200 response.
C26_InvalidTaskIdIs400 ==
    (/\ executed.op = "execute"
     /\ executed.status_code \notin
            {HTTP_401_UNAUTHORIZED, HTTP_422_UNPROCESSABLE_ENTITY}
     /\ executed.command.action.value \in
            {"get-task", "update-task", "delete-task"}
     /\ InvalidTaskId(executed.command.payload))
        => /\ executed.status_code = HTTP_400_BAD_REQUEST
           /\ executed.statements = 0

\* C27: after any sequence of create-task and update-task commands, every
\* stored task satisfies: completed_at is non-null if and only if status is
\* completed.
C27_CompletedAtIffCompleted ==
    \A i \in 1..Len(tasks) :
        tasks[i].completed_at # NULL <=> tasks[i].status = "completed"

\* C28: whenever no rotate is in progress, each issued key_name has exactly
\* one row with active = true and expires_at = null, and it is the most
\* recently created row of that key_name; this holds after any interleaving
\* of concurrent rotate calls for the same key_name, whose SELECT, UPDATE and
\* INSERT statements are separate steps.
C28_OneCurrentRowPerKeyName ==
    (\A c \in Clients : req[c].op # "rotate")
        => \A p \in issued :
              LET current == {r \in Rows : /\ r.key_name = p[1]
                                           /\ r.active = TRUE
                                           /\ r.expires_at = NULL}
              IN  /\ Cardinality(current) = 1
                  /\ \A r \in current, q \in Rows :
                        q.key_name = p[1] => q.id <= r.id

\* C29: expiry is final: once a secret has failed validate because its row's
\* expires_at passed, no sequence of issue and rotate operations (complete or
\* stopped between rotate's two statements) makes that secret pass validate
\* again; rotate never moves the expires_at of an already-expired row into
\* the future.
C29_ExpiryIsFinal ==
    [][\A i \in 1..Len(service_api_keys) :
          (/\ service_api_keys[i].expires_at # NULL
           /\ service_api_keys[i].expires_at <= now
           /\ ~Passes(service_api_keys[i].api_key))
              => /\ ~Passes(service_api_keys[i].api_key)'
                 /\ service_api_keys'[i].expires_at <= now']_vars

\* C30: every get-stats result satisfies total_tasks = pending_tasks +
\* in_progress_tasks + completed_tasks and overdue_tasks <= pending_tasks +
\* in_progress_tasks, also when create-task, update-task or delete-task
\* commands for the same user run between the three separate count queries
\* of get_task_statistics.
C30_StatsAddUp ==
    (/\ executed.op = "execute"
     /\ executed.command.action = Str("get-stats")
     /\ executed.body # None
     /\ executed.body.success)
        => LET data == executed.body.data
           IN  /\ data.total_tasks = data.pending_tasks + data.in_progress_tasks
                                        + data.completed_tasks
               /\ data.overdue_tasks
                      <= data.pending_tasks + data.in_progress_tasks

====
